---- MODULE Spec2Model ----
(***************************************************************************)
(* SimpleDispatcher of go-workers: the dispatch carrier (doDispatch /      *)
(* doExecuteTasks), the task carriers (doRunTask), the result collector    *)
(* (doResultCollector), Run's shutdown sequence and the public operations  *)
(* AddWorker, RemoveWorker, AddTask, RemoveTask and Cancel.                *)
(*                                                                         *)
(* The workers and tasks managers (package manager) are modelled from the  *)
(* specification: a registry looked up by id plus a queue of items that    *)
(* can be pulled.                                                          *)
(*                                                                         *)
(* Scope of one behaviour: one dispatcher, Run invoked once on it (the     *)
(* root context cannot be renewed), every worker and every task handed to  *)
(* AddWorker / AddTask at most once.                                       *)
(*                                                                         *)
(* The legacy Dispatcher (package dispatcher, used with Workman) is a      *)
(* second machine with variables of its own: its Run loop, the goroutine   *)
(* that passes tasks from newQueue to executeQueue, and its workers.       *)
(*                                                                         *)
(* A Workman (package worker) is a third machine: its Run loop, the        *)
(* processTask goroutine, the goroutine calling the task function and the  *)
(* channels kill, killTask and newTask, with the dispatcher and the        *)
(* callers of Kill as its environment.                                     *)
(***************************************************************************)
EXTENDS Integers, Sequences, FiniteSets

\* ------------------------------------------------------------------ bounds

\* Largest finite Repeats() a task is configured with.
MaxRepeats == 1

\* No execution is started once this many have been started (keeps the
\* attempts of a task with Repeats() < 0 finite).
MaxStarts == 2

\* At most this many callers of AddWorker / AddTask are suspended between
\* the condition and the channel send of notifyAllowExecuteTasks at the same
\* time; the other callers run the two without interruption.
MaxSenders == 1

\* RemoveWorker and RemoveTask are called at most this many times together.
MaxRemovals == 1

\* Largest repeats a task of the legacy Dispatcher is configured with.
MaxLegacyRepeats == 3

Workers == {"w1", "w2"}
Tasks == {"t1", "t2"}

\* The workers are handed to AddWorker in this order.
WorkerRank(w) == IF w = "w1" THEN 1 ELSE 2

NoTask == "none"
NoWorker == "none"

\* Task.Repeats() of the tasks used: every finite value for the one, no
\* limit for the other.
RepeatsChoices == {[t \in Tasks |-> IF t = "t1" THEN n ELSE -1] : n \in 0..MaxRepeats}

\* Task.Timeout() > 0 and Task.RepeatInterval() > 0 of the tasks used.  Every
\* task has a timeout: a deadline that never elapses before the function
\* returns gives the behaviours of a task without one.
HasTimeout(t) == t \in Tasks
HasRepeatInterval(t) == t = "t2"

VARIABLES
    status,             \* dispatcher status: StatusItemBase
    ctxDone,            \* d.ctx is done (ctxCancel called)
    wg,                 \* d.wg counter
    runPc,              \* position of the caller of Run
    run2Pc,             \* position of a caller of Run on the running dispatcher
    repeats,            \* Task.Repeats() of every task
    workersReg,         \* workers manager: items found by GetById / GetAll
    workersQueue,       \* workers manager: items Pull can return
    workersCreated,     \* worker items in the order of their created_at
    wStatus,            \* WorkersManagerItem status
    wTask,              \* WorkersManagerItem task
    wCancel,            \* WorkersManagerItem cancel handle is set
    tasksReg,           \* tasks manager: items found by GetById / GetAll
    tasksQueue,         \* tasks manager: pending items, oldest first
    tStatus,            \* TasksManagerItem status
    attempts,           \* TasksManagerItem attempts
    firstStartedAt,     \* TasksManagerItem first_started_at is set
    tCancel,            \* TasksManagerItem cancel handle is set
    tAllowed,           \* allow_start_at of the item has been reached
    allowExecuteTasks,  \* len(d.allowExecuteTasks), a channel of capacity 1
    senders,            \* AddWorker/AddTask callers inside the channel send
    removals,           \* calls of RemoveWorker / RemoveTask so far
    dispPc,             \* position of the doDispatch carrier
    colPc,              \* position of the doResultCollector carrier
    result,             \* the envelope the collector is processing
    runTask,            \* the doRunTask carrier of every worker item
    orphan,             \* a function that still runs after its carrier has
                        \* handed off the envelope: its worker and task
    nStart,             \* number of TaskExecuteStart triggers
    nStop,              \* number of TaskExecuteStop triggers
    legacyStatus,       \* legacy Dispatcher: d.status
    mainPc,             \* legacy Dispatcher: position of Run
    mainTask,           \* the task Run is sending to newQueue
    flowPc,             \* position of the goroutine `executeQueue <- <-newQueue`
    flowTask,           \* the task that goroutine holds
    workersBusy,        \* d.workersBusy
    pool,               \* d.workers
    workmanPc,          \* every worker: wait, run (has a task) or done
    workmanTask,        \* every worker: its current task
    taskStatus,         \* legacy task status
    taskAttempts,       \* legacy task attempts
    taskRepeats,        \* legacy task repeats
    waitTasks,          \* d.waitTasks
    newQueueSenders,    \* tasks whose AddTask caller is sending to newQueue
    mStatus,            \* Workman: m.status
    mTask,              \* Workman: m.task is set
    newTask,            \* Workman: len(m.newTask), a channel of capacity 1
    kill,               \* Workman: len(m.kill), a channel of capacity 1
    killTask,           \* Workman: len(m.killTask), a channel of capacity 1
    mRunPc,             \* Workman: position of Run
    mProcPc,            \* Workman: position of processTask
    mFnPc,              \* Workman: the goroutine calling the task function
    killers             \* callers of Kill that have passed its status check

vars == <<status, ctxDone, wg, runPc, run2Pc, repeats, workersReg, workersQueue,
          workersCreated, wStatus, wTask, wCancel, tasksReg, tasksQueue,
          tStatus, attempts, firstStartedAt, tCancel, tAllowed, allowExecuteTasks, senders,
          removals, dispPc, colPc, result, runTask, orphan, nStart, nStop,
          legacyStatus, mainPc, mainTask, flowPc, flowTask, workersBusy, pool,
          workmanPc, workmanTask, taskStatus, taskAttempts, taskRepeats,
          waitTasks, newQueueSenders, mStatus, mTask, newTask, kill, killTask,
          mRunPc, mProcPc, mFnPc, killers>>

dispatcherVars == <<status, ctxDone, wg, runPc>>
legacyVars == <<legacyStatus, mainPc, mainTask, flowPc, flowTask, workersBusy,
                pool, workmanPc, workmanTask, taskStatus, taskAttempts,
                taskRepeats, waitTasks, newQueueSenders>>
workmanVars == <<mStatus, mTask, newTask, kill, killTask, mRunPc, mProcPc, mFnPc,
                 killers>>
envVars == <<repeats, removals, run2Pc, legacyVars, workmanVars>>
workerVars == <<workersReg, workersQueue, workersCreated, wStatus, wTask, wCancel>>
taskVars == <<tasksReg, tasksQueue, tStatus, attempts, firstStartedAt, tCancel, tAllowed>>
notifyVars == <<allowExecuteTasks, senders>>
eventVars == <<nStart, nStop>>

NoResult == [w |-> NoWorker, t |-> NoTask, err |-> "nil", cancel |-> FALSE]
NoOrphan == [w |-> NoWorker, t |-> NoTask]
NoRunTask == [pc |-> "none", task |-> NoTask, ctxErr |-> "nil", timer |-> FALSE]

\* ------------------------------------------------------- managers (spec)

SeqToSet(s) == {s[i] : i \in 1..Len(s)}

SeqRemove(s, x) == SelectSeq(s, LAMBDA y : y # x)

\* Manager.Push for tasks: idempotent on id, appended at the end.
TasksPush(q, t) == IF t \in SeqToSet(q) THEN q ELSE Append(q, t)

\* A pending task is eligible when its allow_start_at has been reached.
Eligible(t) == tAllowed[t]

\* Manager.Pull for tasks, repeated: the eligible pending tasks, oldest first.
TasksPullable == SelectSeq(tasksQueue, Eligible)

\* A worker of the pool is idle when its status is Wait.
Idle(w) == w \in workersQueue /\ wStatus[w] = "Wait"

\* Manager.Pull for workers, repeated: the idle workers, oldest created first.
WorkersPullable == SelectSeq(workersCreated, Idle)

Min(a, b) == IF a <= b THEN a ELSE b

\* ------------------------------------------------------------------ init

LegacyWorkers == {"m1", "m2"}
LegacyTasks == {"a", "b"}

\* NewDispatcherWithClock: the legacy Dispatcher after construction, no task
\* and no worker handed to it yet.
LegacyConstructed ==
    /\ legacyStatus = "Wait"
    /\ mainPc = "idle"
    /\ mainTask = NoTask
    /\ flowPc = "off"
    /\ flowTask = NoTask
    /\ workersBusy = 0
    /\ pool = {}
    /\ workmanPc = [m \in LegacyWorkers |-> "wait"]
    /\ workmanTask = [m \in LegacyWorkers |-> NoTask]
    /\ taskStatus = [t \in LegacyTasks |-> "New"]
    /\ taskAttempts = [t \in LegacyTasks |-> 0]
    /\ waitTasks = <<>>
    /\ newQueueSenders = {}

\* NewWorkmanWithClock: a Workman after construction.
WorkmanConstructed ==
    /\ mStatus = "Wait"
    /\ mTask = FALSE
    /\ newTask = 0
    /\ kill = 0
    /\ killTask = 0
    /\ mRunPc = "off"
    /\ mProcPc = "off"
    /\ mFnPc = "off"
    /\ killers = 0

\* NewSimpleDispatcherWithContext: the SimpleDispatcher after construction.
SimpleConstructed ==
    /\ status = "Wait"
    /\ ctxDone = FALSE
    /\ wg = 0
    /\ runPc = "idle"
    /\ run2Pc = "idle"
    /\ repeats \in RepeatsChoices
    /\ workersReg = {}
    /\ workersQueue = {}
    /\ workersCreated = <<>>
    /\ wStatus = [w \in Workers |-> "Undefined"]
    /\ wTask = [w \in Workers |-> NoTask]
    /\ wCancel = [w \in Workers |-> FALSE]
    /\ tasksReg = {}
    /\ tasksQueue = <<>>
    /\ tStatus = [t \in Tasks |-> "Undefined"]
    /\ attempts = [t \in Tasks |-> 0]
    /\ firstStartedAt = [t \in Tasks |-> FALSE]
    /\ tCancel = [t \in Tasks |-> FALSE]
    /\ tAllowed = [t \in Tasks |-> TRUE]
    /\ allowExecuteTasks = 0
    /\ senders = 0
    /\ removals = 0
    /\ dispPc = "off"
    /\ colPc = "off"
    /\ result = NoResult
    /\ runTask = [w \in Workers |-> NoRunTask]
    /\ orphan = NoOrphan
    /\ nStart = 0
    /\ nStop = 0

\* The SimpleDispatcher; the legacy Dispatcher stays as constructed.
Init ==
    /\ SimpleConstructed
    /\ LegacyConstructed
    /\ WorkmanConstructed
    /\ taskRepeats = [t \in LegacyTasks |-> 1]

\* ---------------------------------------------------------------- notify

\* Capacity of d.allowExecuteTasks.
NotifyCapacity == 1

\* The condition of notifyAllowExecuteTasks: the caller sends when it holds.
NotifyPasses == status = "Process" /\ allowExecuteTasks = 0

\* The channel send of notifyAllowExecuteTasks blocks while the buffer is full.
NotifySendReady == allowExecuteTasks < NotifyCapacity

\* notifyAllowExecuteTasks at the end of AddWorker / AddTask: when the
\* condition holds the caller sends, at once or after being suspended.
CallerNotify ==
    IF NotifyPasses
    THEN \/ allowExecuteTasks' = allowExecuteTasks + 1 /\ UNCHANGED senders
         \/ senders < MaxSenders /\ senders' = senders + 1 /\ UNCHANGED allowExecuteTasks
    ELSE UNCHANGED <<allowExecuteTasks, senders>>

\* A suspended caller of AddWorker / AddTask completes its send.
NotifySend ==
    /\ senders > 0
    /\ NotifySendReady
    /\ allowExecuteTasks' = allowExecuteTasks + 1
    /\ senders' = senders - 1
    /\ UNCHANGED <<dispatcherVars, envVars, workerVars, taskVars, dispPc, colPc,
                   result, runTask, orphan, eventVars>>

\* ------------------------------------------------------ public operations

\* The context of the carrier cancelled through a cancel handle: the first
\* cause of the context's end stays its Err().
CancelCtx(rt) ==
    IF rt.pc = "select" /\ rt.ctxErr = "nil" THEN [rt EXCEPT !.ctxErr = "Canceled"] ELSE rt

\* The worker whose carrier holds the context a task's cancel handle refers to.
CarrierOf(t) == {w \in Workers : runTask[w].pc = "select" /\ runTask[w].task = t}

AddWorker(w) ==
    /\ wStatus[w] = "Undefined"
    /\ \A v \in Workers : WorkerRank(v) < WorkerRank(w) => wStatus[v] # "Undefined"
    /\ wStatus' = [wStatus EXCEPT ![w] = "Wait"]
    /\ workersReg' = workersReg \cup {w}
    /\ workersQueue' = workersQueue \cup {w}
    /\ workersCreated' = Append(workersCreated, w)
    /\ CallerNotify
    /\ UNCHANGED <<dispatcherVars, envVars, wTask, wCancel, taskVars,
                   dispPc, colPc, result, runTask, orphan,
                   eventVars>>

RemoveWorker(w) ==
    /\ w \in workersReg
    /\ removals < MaxRemovals
    /\ removals' = removals + 1
    /\ wStatus' = [wStatus EXCEPT ![w] = "Cancel"]
    /\ runTask' = IF wCancel[w] THEN [runTask EXCEPT ![w] = CancelCtx(@)] ELSE runTask
    /\ wTask' = [wTask EXCEPT ![w] = NoTask]
    /\ workersReg' = workersReg \ {w}
    /\ workersQueue' = workersQueue \ {w}
    /\ UNCHANGED <<dispatcherVars, repeats, run2Pc, legacyVars, workmanVars, workersCreated, wCancel, taskVars,
                   notifyVars, dispPc, colPc, result, orphan, eventVars>>

AddTask(t) ==
    /\ tStatus[t] = "Undefined"
    /\ tStatus' = [tStatus EXCEPT ![t] = "Wait"]
    /\ tasksReg' = tasksReg \cup {t}
    /\ tasksQueue' = TasksPush(tasksQueue, t)
    /\ CallerNotify
    /\ UNCHANGED <<dispatcherVars, envVars, workerVars, attempts, firstStartedAt, tCancel, tAllowed,
                   dispPc, colPc, result, runTask, orphan,
                   eventVars>>

RemoveTask(t) ==
    /\ t \in tasksReg
    /\ removals < MaxRemovals
    /\ removals' = removals + 1
    /\ tStatus' = [tStatus EXCEPT ![t] = "Cancel"]
    /\ runTask' = IF tCancel[t]
                  THEN [w \in Workers |->
                            IF w \in CarrierOf(t) THEN CancelCtx(runTask[w]) ELSE runTask[w]]
                  ELSE runTask
    /\ tasksReg' = tasksReg \ {t}
    /\ tasksQueue' = SeqRemove(tasksQueue, t)
    /\ UNCHANGED <<dispatcherVars, repeats, run2Pc, legacyVars, workmanVars, workerVars, attempts, firstStartedAt, tCancel, tAllowed,
                   notifyVars, dispPc, colPc, result, orphan, eventVars>>

\* Cancel: ctxCancel ends the root context and with it every task context.
Cancel ==
    /\ ~ctxDone
    /\ ctxDone' = TRUE
    /\ runTask' = [w \in Workers |-> CancelCtx(runTask[w])]
    /\ UNCHANGED <<status, wg, runPc, envVars, workerVars, taskVars, notifyVars,
                   dispPc, colPc, result, orphan, eventVars>>

\* The clock reaches the allow_start_at of the delayed tasks.
TimePasses ==
    /\ \E t \in Tasks : ~tAllowed[t]
    /\ tAllowed' = [t \in Tasks |-> TRUE]
    /\ UNCHANGED <<dispatcherVars, envVars, workerVars, tasksReg, tasksQueue,
                   tStatus, attempts, firstStartedAt, tCancel, notifyVars, dispPc, colPc, result,
                   runTask, orphan, eventVars>>

\* -------------------------------------------------------------------- Run

\* RunAccepts refusing only a dispatcher in Process.
RunAcceptsNotProcess == status # "Process"

\* Run goes on only when the dispatcher is in Wait.
RunAccepts == status = "Wait"

\* Run up to the launch of the two carriers.
Run ==
    /\ runPc = "idle"
    /\ RunAccepts
    /\ status' = "Process"
    /\ colPc' = "launched"
    /\ dispPc' = "launched"
    /\ runPc' = "notify"
    /\ UNCHANGED <<ctxDone, wg, envVars, workerVars, taskVars, notifyVars, result,
                   runTask, orphan, eventVars>>

\* Run called once more while the dispatcher is in Process or Cancel: it
\* returns the error "Dispatcher is running" unless the status check lets it
\* go on to the launch of the two carriers.
RunAgain ==
    /\ run2Pc = "idle"
    /\ status # "Wait"
    /\ IF RunAccepts
       THEN /\ status' = "Process"
            /\ colPc' = "launched"
            /\ dispPc' = "launched"
            /\ run2Pc' = "notify"
       ELSE /\ run2Pc' = "error"
            /\ UNCHANGED <<status, colPc, dispPc>>
    /\ UNCHANGED <<ctxDone, wg, runPc, repeats, removals, legacyVars, workmanVars, workerVars,
                   taskVars, notifyVars, result, runTask, orphan, eventVars>>

\* Run: d.notifyAllowExecuteTasks(), the condition.
RunNotify ==
    /\ runPc = "notify"
    /\ runPc' = IF NotifyPasses THEN "notifySend" ELSE "waitCtx"
    /\ UNCHANGED <<status, ctxDone, wg, envVars, workerVars, taskVars, notifyVars,
                   dispPc, colPc, result, runTask, orphan, eventVars>>

\* Run: d.notifyAllowExecuteTasks(), the send.
RunNotifySend ==
    /\ runPc = "notifySend"
    /\ NotifySendReady
    /\ allowExecuteTasks' = allowExecuteTasks + 1
    /\ runPc' = "waitCtx"
    /\ UNCHANGED <<status, ctxDone, wg, envVars, workerVars, taskVars, senders,
                   dispPc, colPc, result, runTask, orphan, eventVars>>

\* Run: <-d.ctx.Done(), then the dispatcher status becomes Cancel.
RunCancel ==
    /\ runPc = "waitCtx"
    /\ ctxDone
    /\ status' = "Cancel"
    /\ runPc' = "cancelItems"
    /\ UNCHANGED <<ctxDone, wg, envVars, workerVars, taskVars, notifyVars, dispPc,
                   colPc, result, runTask, orphan, eventVars>>

\* Run: every worker and every task of GetAll() is set to Cancel.
RunCancelItems ==
    /\ runPc = "cancelItems"
    /\ wStatus' = [w \in Workers |-> IF w \in workersReg THEN "Cancel" ELSE wStatus[w]]
    /\ tStatus' = [t \in Tasks |-> IF t \in tasksReg THEN "Cancel" ELSE tStatus[t]]
    /\ runPc' = "wgWait"
    /\ UNCHANGED <<status, ctxDone, wg, envVars, workersReg, workersQueue,
                   workersCreated, wTask, wCancel, tasksReg, tasksQueue, attempts, firstStartedAt,
                   tCancel, tAllowed, notifyVars, dispPc, colPc, result, runTask,
                   orphan, eventVars>>

\* Run: d.wg.Wait() returns, the status goes back to Wait and Run returns.
RunReturn ==
    /\ runPc = "wgWait"
    /\ wg = 0
    /\ status' = "Wait"
    /\ runPc' = "returned"
    /\ UNCHANGED <<ctxDone, wg, envVars, workerVars, taskVars, notifyVars, dispPc,
                   colPc, result, runTask, orphan, eventVars>>

\* ------------------------------------------------------------- doDispatch

DispatchStart ==
    /\ dispPc = "launched"
    /\ wg' = wg + 1
    /\ dispPc' = "select"
    /\ UNCHANGED <<status, ctxDone, runPc, envVars, workerVars, taskVars,
                   notifyVars, colPc, result, runTask, orphan, eventVars>>

\* doExecuteTasks starts its loop only while the dispatcher is in Process.
ExecuteAllowed == status = "Process"

\* Pairs for a doExecuteTasks that returns after its first launch.
PairsOne(nw, nt) == Min(1, Min(nw, nt))

\* The number of (worker, task) pairs the loop of doExecuteTasks pulls
\* before one of the two pulls returns nothing.
Pairs(nw, nt) == Min(nw, nt)

\* doExecuteTasks: while a worker and a task can both be pulled,
\* TaskExecuteStart is triggered and a carrier launched for the pair; what
\* is pulled alone is pushed back, which leaves the pool and the queue as
\* they were.
doExecuteTasks ==
    IF ExecuteAllowed
    THEN LET ws == WorkersPullable
             ts == TasksPullable
             n == Min(Pairs(Len(ws), Len(ts)), MaxStarts - nStart)
             pw == {ws[i] : i \in 1..n}
             pt == {ts[i] : i \in 1..n}
         IN /\ workersQueue' = workersQueue \ pw
            /\ tasksQueue' = SelectSeq(tasksQueue, LAMBDA t : t \notin pt)
            /\ nStart' = nStart + n
            /\ runTask' = [w \in Workers |->
                             IF w \in pw
                             THEN [pc |-> "launched",
                                   task |-> ts[CHOOSE i \in 1..n : ws[i] = w],
                                   ctxErr |-> "nil", timer |-> FALSE]
                             ELSE runTask[w]]
    ELSE UNCHANGED <<workersQueue, tasksQueue, nStart, runTask>>

\* case <-d.allowExecuteTasks
DispatchNotified ==
    /\ dispPc = "select"
    /\ allowExecuteTasks > 0
    /\ allowExecuteTasks' = allowExecuteTasks - 1
    /\ doExecuteTasks
    /\ UNCHANGED <<dispatcherVars, envVars, workersReg, workersCreated, wStatus,
                   wTask, wCancel, tasksReg, tStatus, attempts, firstStartedAt, tCancel, tAllowed,
                   senders, dispPc, colPc, result, orphan, nStop>>

\* A tick that does not run the dispatch cycle.
DispatchTickIdle ==
    /\ dispPc = "select"
    /\ UNCHANGED vars

\* case <-d.tickerAllowExecuteTasks.C()
DispatchTick ==
    /\ dispPc = "select"
    /\ doExecuteTasks
    /\ UNCHANGED <<dispatcherVars, envVars, workersReg, workersCreated, wStatus,
                   wTask, wCancel, tasksReg, tStatus, attempts, firstStartedAt, tCancel, tAllowed,
                   notifyVars, dispPc, colPc, result, orphan, nStop>>

\* case <-d.ctx.Done()
DispatchExit ==
    /\ dispPc = "select"
    /\ ctxDone
    /\ dispPc' = "exited"
    /\ wg' = wg - 1
    /\ UNCHANGED <<status, ctxDone, runPc, envVars, workerVars, taskVars,
                   notifyVars, colPc, result, runTask, orphan, eventVars>>

\* -------------------------------------------------------------- doRunTask

\* d.wg.Add(1), the first statement of the launched carrier.
RunTaskAdd(w) ==
    /\ runTask[w].pc = "launched"
    /\ wg' = wg + 1
    /\ runTask' = [runTask EXCEPT ![w].pc = "begin"]
    /\ UNCHANGED <<status, ctxDone, runPc, envVars, workerVars, taskVars,
                   notifyVars, dispPc, colPc, result, orphan, eventVars>>

\* FirstAttempt that never finds a first attempt.
FirstAttemptZero(a) == a = 0

\* if taskItem.Attempts() == 1: the attempt just counted is the first one.
FirstAttempt(a) == a = 1

\* The worker gets the task and the status Process; the task gets one more
\* attempt and the status Process. The task context is derived from d.ctx
\* (with a timer when the task has a timeout and d.ctx is not done yet), both
\* items get its cancel handle and the function carrier calling
\* Worker.RunTask is started.
RunTaskBegin(w) ==
    /\ runTask[w].pc = "begin"
    /\ wTask' = [wTask EXCEPT ![w] = runTask[w].task]
    /\ wStatus' = [wStatus EXCEPT ![w] = "Process"]
    /\ attempts' = [attempts EXCEPT ![runTask[w].task] = @ + 1]
    /\ tStatus' = [tStatus EXCEPT ![runTask[w].task] = "Process"]
    /\ firstStartedAt' = [firstStartedAt EXCEPT ![runTask[w].task] =
                             @ \/ FirstAttempt(attempts'[runTask[w].task])]
    /\ runTask' = [runTask EXCEPT ![w] =
                      [@ EXCEPT !.pc = "select",
                                !.ctxErr = IF ctxDone THEN "Canceled" ELSE "nil",
                                !.timer = HasTimeout(runTask[w].task) /\ ~ctxDone]]
    /\ tCancel' = [tCancel EXCEPT ![runTask[w].task] = TRUE]
    /\ wCancel' = [wCancel EXCEPT ![w] = TRUE]
    /\ UNCHANGED <<dispatcherVars, envVars, workersReg, workersQueue,
                   workersCreated, tasksReg, tasksQueue, tAllowed, notifyVars,
                   dispPc, colPc, result, orphan, eventVars>>

FnOutcomes == {"ok", "err", "panic"}

\* A function whose carrier has already handed off returns at last.
OrphanReturn ==
    /\ orphan # NoOrphan
    /\ orphan' = NoOrphan
    /\ UNCHANGED <<dispatcherVars, envVars, workerVars, taskVars, notifyVars,
                   dispPc, colPc, result, runTask, eventVars>>

\* The error of the envelope the function carrier leaves in done.
FnErr(o) == IF o = "ok" THEN "nil" ELSE IF o = "err" THEN "error" ELSE "Panic recovered"

\* The Err() values the task context may have when the select of doRunTask
\* runs: Canceled once a cancel handle or the root context ended it, and
\* DeadlineExceeded when the context has a timer (the deadline may have
\* elapsed before anything else ended the context).
CtxErrs(w) ==
    (IF runTask[w].ctxErr # "nil" THEN {runTask[w].ctxErr} ELSE {})
    \cup (IF runTask[w].timer THEN {"DeadlineExceeded"} ELSE {})

\* The envelope of the branch case <-ctx.Done().
CtxEnvelope(w, err) ==
    [w |-> w, t |-> runTask[w].task, err |-> err, cancel |-> err = "Canceled",
     running |-> TRUE]

\* The envelope of the branch case r := <-done, for an outcome of the function.
DoneEnvelope(w, o) ==
    [w |-> w, t |-> runTask[w].task, err |-> FnErr(o), cancel |-> FALSE,
     running |-> FALSE]

\* What the select of doRunTask can send: `running` tells whether the
\* function is still running when the carrier sends (with the branch
\* ctx.Done() the function may or may not have returned).
Envelopes(w) ==
    IF runTask[w].pc # "select" THEN {}
    ELSE {CtxEnvelope(w, err) : err \in CtxErrs(w)}
         \cup {[CtxEnvelope(w, err) EXCEPT !.running = FALSE] : err \in CtxErrs(w)}
         \cup {DoneEnvelope(w, o) : o \in FnOutcomes}

\* ------------------------------------------------------ doResultCollector

CollectorStart ==
    /\ colPc = "launched"
    /\ wg' = wg + 1
    /\ colPc' = "select"
    /\ UNCHANGED <<status, ctxDone, runPc, envVars, workerVars, taskVars,
                   notifyVars, dispPc, result, runTask, orphan, eventVars>>

\* case <-d.ctx.Done()
CollectorExit ==
    /\ colPc = "select"
    /\ ctxDone
    /\ colPc' = "exited"
    /\ wg' = wg - 1
    /\ UNCHANGED <<status, ctxDone, runPc, envVars, workerVars, taskVars,
                   notifyVars, dispPc, result, runTask, orphan, eventVars>>

\* An envelope received while the dispatcher is in Cancel is dropped.
\* DropResult that looks for the status Wait.
DropResultWait == status = "Wait"

DropResult == status = "Cancel"

\* d.results is unbuffered: the carrier of w sends the envelope e as the
\* collector receives it. The carrier then returns (ctxCancel, wg.Done); the
\* collector clears both cancel handles and looks at the dispatcher status.
Handoff(w, e) ==
    /\ colPc = "select"
    /\ e \in Envelopes(w)
    /\ runTask' = [runTask EXCEPT ![w] = NoRunTask]
    /\ orphan' = IF e.running THEN [w |-> w, t |-> e.t] ELSE orphan
    /\ wg' = wg - 1
    /\ tCancel' = [tCancel EXCEPT ![e.t] = FALSE]
    /\ wCancel' = [wCancel EXCEPT ![w] = FALSE]
    /\ IF DropResult
       THEN UNCHANGED <<colPc, result>>
       ELSE colPc' = "result" /\ result' = [w |-> e.w, t |-> e.t, err |-> e.err, cancel |-> e.cancel]
    /\ UNCHANGED <<status, ctxDone, runPc, envVars, workersReg, workersQueue,
                   workersCreated, wStatus, wTask, tasksReg, tasksQueue, tStatus,
                   attempts, firstStartedAt, tAllowed, notifyVars, dispPc, eventVars>>

\* ReturnWorker with the two conditions joined by "and".
ReturnWorkerBoth(cancel, ws) == ~cancel /\ ws # "Cancel"

\* The worker goes back to Wait and to the pool unless this holds not.
ReturnWorker(cancel, ws) == ~cancel \/ ws # "Cancel"

\* The outcome is recorded on the task unless the envelope is a cancellation
\* or the task is in Cancel.
RecordOutcome(cancel, ts) == ~cancel /\ ts # "Cancel"

\* ResultTaskStatus with a recovered panic not counted as a failure.
ResultTaskStatusNoPanic(err) ==
    IF err \in {"error", "DeadlineExceeded"} THEN "Fail" ELSE "Success"

\* ResultTaskStatus with only a function error counted as a failure.
ResultTaskStatusErrorOnly(err) == IF err = "error" THEN "Fail" ELSE "Success"

\* The status an outcome gives the task.
ResultTaskStatus(err) == IF err # "nil" THEN "Fail" ELSE "Success"

\* RepeatAllowed without the case of a negative Repeats().
RepeatAllowedFiniteOnly(rep, att) == att < rep

\* RepeatAllowed with the comparison off by one.
RepeatAllowedOffByOne(rep, att) == rep < 0 \/ att <= rep

\* The task is repeated when its Repeats() is negative or not yet reached.
RepeatAllowed(rep, att) == rep < 0 \/ att < rep

\* TaskExecuteStop is triggered, then d.notifyAllowExecuteTasks(): its condition.
CollectorStop ==
    /\ nStop' = nStop + 1
    /\ result' = NoResult
    /\ colPc' = IF NotifyPasses THEN "notify" ELSE "select"

\* result.workerItem.SetTask(nil), the worker's way back to the pool and the
\* outcome recorded on the task; an envelope whose outcome is not recorded
\* goes on to TaskExecuteStop.
CollectorResult ==
    /\ colPc = "result"
    /\ wTask' = [wTask EXCEPT ![result.w] = NoTask]
    /\ IF ReturnWorker(result.cancel, wStatus[result.w])
       THEN /\ wStatus' = [wStatus EXCEPT ![result.w] = "Wait"]
            /\ workersReg' = workersReg \cup {result.w}
            /\ workersQueue' = workersQueue \cup {result.w}
       ELSE UNCHANGED <<wStatus, workersReg, workersQueue>>
    /\ IF RecordOutcome(result.cancel, tStatus[result.t])
       THEN /\ tStatus' = [tStatus EXCEPT ![result.t] = ResultTaskStatus(result.err)]
            /\ colPc' = "repeat"
            /\ UNCHANGED <<result, nStop>>
       ELSE /\ CollectorStop
            /\ UNCHANGED tStatus
    /\ UNCHANGED <<dispatcherVars, envVars, workersCreated, wCancel, tasksReg,
                   tasksQueue, attempts, firstStartedAt, tCancel, tAllowed, notifyVars, dispPc,
                   runTask, orphan, nStart>>

\* The task goes back to the queue in RepeatWait, or is removed; then
\* TaskExecuteStop.
CollectorRepeat ==
    /\ colPc = "repeat"
    /\ IF RepeatAllowed(repeats[result.t], attempts[result.t])
       THEN /\ tAllowed' = [tAllowed EXCEPT ![result.t] = ~HasRepeatInterval(result.t)]
            /\ tStatus' = [tStatus EXCEPT ![result.t] = "RepeatWait"]
            /\ tasksReg' = tasksReg \cup {result.t}
            /\ tasksQueue' = TasksPush(tasksQueue, result.t)
       ELSE /\ tasksReg' = tasksReg \ {result.t}
            /\ tasksQueue' = SeqRemove(tasksQueue, result.t)
            /\ UNCHANGED <<tAllowed, tStatus>>
    /\ CollectorStop
    /\ UNCHANGED <<dispatcherVars, envVars, workerVars, attempts, firstStartedAt, tCancel,
                   notifyVars, dispPc, runTask, orphan, nStart>>

\* d.notifyAllowExecuteTasks() of the collector: the send.
CollectorNotifySend ==
    /\ colPc = "notify"
    /\ NotifySendReady
    /\ allowExecuteTasks' = allowExecuteTasks + 1
    /\ colPc' = "select"
    /\ UNCHANGED <<dispatcherVars, envVars, workerVars, taskVars, senders, dispPc,
                   result, runTask, orphan, eventVars>>

\* ------------------------------------------------------------------ system

\* The steps of Run and of the carriers it starts.
DispatcherNext ==
    \/ RunNotify \/ RunNotifySend \/ RunCancel \/ RunCancelItems
    \/ RunReturn
    \/ DispatchStart \/ DispatchNotified \/ DispatchTick \/ DispatchExit
    \/ CollectorStart \/ CollectorExit \/ CollectorResult \/ CollectorRepeat
    \/ CollectorNotifySend
    \/ \E w \in Workers :
          \/ RunTaskAdd(w) \/ RunTaskBegin(w)
          \/ \E e \in Envelopes(w) : Handoff(w, e)

\* The callers of the public operations, the task functions and the clock.
EnvironmentNext ==
    \/ Run \/ Cancel \/ NotifySend \/ TimePasses \/ OrphanReturn
    \/ \E w \in Workers :
          \/ AddWorker(w) \/ RemoveWorker(w)
    \/ \E t \in Tasks : AddTask(t) \/ RemoveTask(t)

Next == DispatcherNext \/ EnvironmentNext

Spec == Init /\ [][Next]_vars

\* The dispatcher with a second caller of Run and without calls of
\* RemoveWorker and RemoveTask.
CallersNext ==
    \/ DispatcherNext
    \/ Run \/ RunAgain \/ Cancel \/ NotifySend \/ TimePasses \/ OrphanReturn
    \/ \E w \in Workers : AddWorker(w)
    \/ \E t \in Tasks : AddTask(t)

CallersSpec == Init /\ [][CallersNext]_vars

\* A second caller of Run on a dispatcher in Wait: the status check of Run
\* (IsStatus is one atomic read), passed.
RunCheck ==
    /\ run2Pc = "idle"
    /\ RunAccepts
    /\ run2Pc' = "passed"
    /\ UNCHANGED <<dispatcherVars, repeats, removals, legacyVars, workmanVars, workerVars,
                   taskVars, notifyVars, dispPc, colPc, result, runTask, orphan,
                   eventVars>>

\* The second caller after its check: it sets the status to Process and
\* starts a result-collector and a dispatch carrier with two go statements,
\* whatever the status has become since the check. The carriers it starts
\* run the same code on the same dispatcher as those of the first caller;
\* they are not followed further.
RunProceed ==
    /\ run2Pc = "passed"
    /\ status' = "Process"
    /\ run2Pc' = "notify"
    /\ UNCHANGED <<ctxDone, wg, runPc, repeats, removals, legacyVars, workmanVars, workerVars,
                   taskVars, notifyVars, dispPc, colPc, result, runTask, orphan,
                   eventVars>>

\* The dispatcher with two callers of Run that may call it at the same
\* time.
RaceNext == CallersNext \/ RunCheck \/ RunProceed

RaceSpec == Init /\ [][RaceNext]_vars

\* ------------------------------------------------------ legacy Dispatcher

simpleVars == <<dispatcherVars, repeats, removals, run2Pc, workerVars, taskVars,
                notifyVars, dispPc, colPc, result, runTask, orphan, eventVars>>

\* The workers are handed out by AddWorker in this order.
LegacyRank(m) == IF m = "m1" THEN 1 ELSE 2

\* AddWorker: a new Workman is pushed to d.workers.
LegacyAddWorker(m) ==
    /\ m \notin pool
    /\ \A n \in LegacyWorkers : LegacyRank(n) < LegacyRank(m) => n \in pool
    /\ pool' = pool \cup {m}
    /\ UNCHANGED <<simpleVars, workmanVars, legacyStatus, mainPc, mainTask, flowPc, flowTask,
                   workersBusy, workmanPc, workmanTask, taskStatus, taskAttempts,
                   taskRepeats, waitTasks, newQueueSenders>>

\* AddTask of a task with zero duration: add() runs in the caller, which
\* sends the task to newQueue when the dispatcher is in Process and stores
\* it in waitTasks otherwise.
LegacyAddTask(t) ==
    /\ taskStatus[t] = "New"
    /\ taskStatus' = [taskStatus EXCEPT ![t] = "Wait"]
    /\ IF legacyStatus = "Process"
       THEN newQueueSenders' = newQueueSenders \cup {t} /\ UNCHANGED waitTasks
       ELSE waitTasks' = Append(waitTasks, t) /\ UNCHANGED newQueueSenders
    /\ UNCHANGED <<simpleVars, workmanVars, legacyStatus, mainPc, mainTask, flowPc, flowTask,
                   workersBusy, pool, workmanPc, workmanTask, taskAttempts,
                   taskRepeats>>

\* Run up to the loop over waitTasks: the status check, the status Process
\* and the launch of the goroutine between newQueue and executeQueue.
LegacyRun ==
    /\ mainPc = "idle"
    /\ legacyStatus # "Process"
    /\ legacyStatus' = "Process"
    /\ flowPc' = "recvNew"
    /\ mainPc' = "drain"
    /\ UNCHANGED <<simpleVars, workmanVars, mainTask, flowTask, workersBusy, pool, workmanPc,
                   workmanTask, taskStatus, taskAttempts, taskRepeats, waitTasks,
                   newQueueSenders>>

\* for d.waitTasks.Len() > 0 { d.AddTask(d.waitTasks.Pop()) }: Run itself
\* becomes the sender of the next waiting task; then heap.Init and the loop.
LegacyDrain ==
    /\ mainPc = "drain"
    /\ IF waitTasks # <<>>
       THEN /\ mainTask' = Head(waitTasks)
            /\ waitTasks' = Tail(waitTasks)
            /\ mainPc' = "drainSend"
       ELSE /\ mainPc' = "select"
            /\ UNCHANGED <<mainTask, waitTasks>>
    /\ UNCHANGED <<simpleVars, workmanVars, legacyStatus, flowPc, flowTask, workersBusy, pool,
                   workmanPc, workmanTask, taskStatus, taskAttempts, taskRepeats,
                   newQueueSenders>>

\* The end of the case <-d.doneWorker: workersBusy-- and, when exactly one
\* worker has become free, the send to allowProcessing.
AfterDone ==
    /\ workersBusy' = workersBusy - 1
    /\ mainPc' = IF workersBusy - 1 = Cardinality(pool) - 1 THEN "doneAllow" ELSE "select"

\* <-d.newQueue receives the task Run is sending (newQueue is unbuffered);
\* Run goes on after its AddTask.
FlowReceiveMain ==
    /\ flowPc = "recvNew"
    /\ mainPc \in {"drainSend", "doneSend"}
    /\ flowTask' = mainTask
    /\ flowPc' = "sendExec"
    /\ mainTask' = NoTask
    /\ IF mainPc = "drainSend"
       THEN mainPc' = "drain" /\ UNCHANGED workersBusy
       ELSE AfterDone
    /\ UNCHANGED <<simpleVars, workmanVars, legacyStatus, pool, workmanPc, workmanTask,
                   taskStatus, taskAttempts, taskRepeats, waitTasks,
                   newQueueSenders>>

\* <-d.newQueue receives the task of a caller of AddTask.
FlowReceiveCaller(t) ==
    /\ flowPc = "recvNew"
    /\ t \in newQueueSenders
    /\ newQueueSenders' = newQueueSenders \ {t}
    /\ flowTask' = t
    /\ flowPc' = "sendExec"
    /\ UNCHANGED <<simpleVars, workmanVars, legacyStatus, mainPc, mainTask, workersBusy, pool,
                   workmanPc, workmanTask, taskStatus, taskAttempts, taskRepeats,
                   waitTasks>>

\* The workers heap.Pop can return for a new task: the free ones.
FreeWorkers == {m \in pool : workmanPc[m] = "wait"}

\* case t := <-d.executeQueue: a worker is popped, started and sent the
\* task; workersBusy++ and, when a worker is left, the send to
\* allowProcessing. Popping from an empty heap ends Run.
MainExecute ==
    /\ mainPc = "select"
    /\ flowPc = "sendExec"
    /\ flowPc' = "waitAllow"
    /\ flowTask' = NoTask
    /\ IF FreeWorkers = {}
       THEN /\ mainPc' = "panic"
            /\ UNCHANGED <<workmanPc, workmanTask, workersBusy>>
       ELSE \E m \in FreeWorkers :
               /\ workmanPc' = [workmanPc EXCEPT ![m] = "run"]
               /\ workmanTask' = [workmanTask EXCEPT ![m] = flowTask]
               /\ workersBusy' = workersBusy + 1
               /\ mainPc' = IF workersBusy + 1 < Cardinality(pool)
                             THEN "execAllow" ELSE "select"
    /\ UNCHANGED <<simpleVars, workmanVars, legacyStatus, mainTask, pool, taskStatus,
                   taskAttempts, taskRepeats, waitTasks, newQueueSenders>>

\* d.allowProcessing <- true meets <-d.allowProcessing (unbuffered).
MainAllow ==
    /\ mainPc \in {"execAllow", "doneAllow"}
    /\ flowPc = "waitAllow"
    /\ mainPc' = "select"
    /\ flowPc' = "recvNew"
    /\ UNCHANGED <<simpleVars, workmanVars, legacyStatus, mainTask, flowTask, workersBusy, pool,
                   workmanPc, workmanTask, taskStatus, taskAttempts, taskRepeats,
                   waitTasks, newQueueSenders>>

LegacyOutcomes == {"Success", "Fail"}

\* Workman.Run with processTask: the attempts start from 0 unless the task
\* is in RepeatWait, they are incremented, the function runs (it leaves the
\* repeats as they are and the duration zero) and Run comes to its deferred
\* m.done <- m.
WorkmanExecute(m) ==
    /\ workmanPc[m] = "run"
    /\ \E o \in LegacyOutcomes :
          taskStatus' = [taskStatus EXCEPT ![workmanTask[m]] = o]
    /\ taskAttempts' = [taskAttempts EXCEPT ![workmanTask[m]] =
                            (IF taskStatus[workmanTask[m]] # "RepeatWait" THEN 0 ELSE @) + 1]
    /\ workmanPc' = [workmanPc EXCEPT ![m] = "done"]
    /\ UNCHANGED <<simpleVars, workmanVars, legacyStatus, mainPc, mainTask, flowPc, flowTask,
                   workersBusy, pool, workmanTask, taskRepeats, waitTasks,
                   newQueueSenders>>

\* The finished task is submitted again when this holds.
LegacyRepeatAllowed(rep, att) == rep = -1 \/ att < rep

\* case w := <-d.doneWorker: the worker is reset; a task to repeat is set to
\* RepeatWait and handed to AddTask, whose add() makes Run the sender of the
\* task to newQueue.
MainDone(m) ==
    /\ mainPc = "select"
    /\ workmanPc[m] = "done"
    /\ workmanPc' = [workmanPc EXCEPT ![m] = "wait"]
    /\ workmanTask' = [workmanTask EXCEPT ![m] = NoTask]
    /\ IF LegacyRepeatAllowed(taskRepeats[workmanTask[m]], taskAttempts[workmanTask[m]])
       THEN /\ taskStatus' = [taskStatus EXCEPT ![workmanTask[m]] = "RepeatWait"]
            /\ mainTask' = workmanTask[m]
            /\ mainPc' = "doneSend"
            /\ UNCHANGED workersBusy
       ELSE /\ AfterDone
            /\ UNCHANGED <<taskStatus, mainTask>>
    /\ UNCHANGED <<simpleVars, workmanVars, legacyStatus, flowPc, flowTask, pool, taskAttempts,
                   taskRepeats, waitTasks, newQueueSenders>>

\* The steps of Run, of the goroutine it starts and of the workers.
LegacyDispatcherNext ==
    \/ LegacyDrain \/ FlowReceiveMain \/ MainExecute \/ MainAllow
    \/ \E t \in LegacyTasks : FlowReceiveCaller(t)
    \/ \E m \in LegacyWorkers : WorkmanExecute(m) \/ MainDone(m)

\* The callers of Run, AddWorker and AddTask.
LegacyEnvironmentNext ==
    \/ LegacyRun
    \/ \E m \in LegacyWorkers : LegacyAddWorker(m)
    \/ \E t \in LegacyTasks : LegacyAddTask(t)

LegacyInit ==
    /\ SimpleConstructed
    /\ repeats = [t \in Tasks |-> IF t = "t1" THEN 0 ELSE -1]
    /\ LegacyConstructed
    /\ WorkmanConstructed
    /\ taskRepeats \in [LegacyTasks -> 1..MaxLegacyRepeats]

LegacySpec == LegacyInit /\ [][LegacyDispatcherNext \/ LegacyEnvironmentNext]_vars

\* AddTask called while the dispatcher is not running: the else branch of
\* add().
LegacyAddWaiting(t) ==
    /\ legacyStatus # "Process"
    /\ LegacyAddTask(t)

\* The legacy Dispatcher whose tasks are all added while it is not running:
\* every task goes to waitTasks and Run is the only sender to newQueue.
WaitingNext ==
    \/ LegacyDrain \/ FlowReceiveMain \/ MainExecute \/ MainAllow
    \/ \E m \in LegacyWorkers : WorkmanExecute(m) \/ MainDone(m)
    \/ LegacyRun
    \/ \E m \in LegacyWorkers : LegacyAddWorker(m)
    \/ \E t \in LegacyTasks : LegacyAddWaiting(t)

WaitingSpec == LegacyInit /\ [][WaitingNext]_vars

\* ------------------------------------------------- the dispatcher at work

\* The steps of Run and of its carriers while the root context is not
\* cancelled.
WorkNext ==
    \/ RunNotify \/ RunNotifySend
    \/ DispatchStart \/ DispatchNotified \/ DispatchTick
    \/ CollectorStart \/ CollectorResult \/ CollectorRepeat
    \/ CollectorNotifySend
    \/ \E w \in Workers :
          \/ RunTaskAdd(w) \/ RunTaskBegin(w)
          \/ \E e \in Envelopes(w) : Handoff(w, e)

\* The callers of the public operations other than Cancel.
WorkEnvironmentNext ==
    \/ Run \/ NotifySend \/ TimePasses \/ OrphanReturn
    \/ \E w \in Workers :
          \/ AddWorker(w) \/ RemoveWorker(w)
    \/ \E t \in Tasks : AddTask(t) \/ RemoveTask(t)

\* The steps of the doDispatch carrier; its ticker fires again and again.
DispatchSteps == DispatchStart \/ DispatchNotified \/ DispatchTick

\* The steps of the doResultCollector carrier.
CollectorSteps ==
    CollectorStart \/ CollectorResult \/ CollectorRepeat \/ CollectorNotifySend

\* The steps of the doRunTask carrier of a worker item; the function it
\* started returns or its context ends.
RunTaskSteps(w) ==
    RunTaskAdd(w) \/ RunTaskBegin(w) \/ \E e \in Envelopes(w) : Handoff(w, e)

\* Every carrier that can take a step is scheduled, and so is the caller of
\* Run.
Fairness ==
    /\ WF_vars(RunNotify \/ RunNotifySend)
    /\ WF_vars(DispatchSteps)
    /\ WF_vars(CollectorSteps)
    /\ \A w \in Workers : WF_vars(RunTaskSteps(w))

\* The dispatcher while nobody calls Cancel: it stays in Process once Run
\* has been called.
WorkSpec == Init /\ [][WorkNext \/ WorkEnvironmentNext]_vars /\ Fairness

\* ---------------------------------------------------------- Workman

\* The variables of the two dispatchers; a Workman is followed on its own,
\* with the dispatcher as the caller of its operations.
outerVars == <<simpleVars, legacyVars>>

MaxKillers == 1

\* The capacity of m.kill, m.killTask and m.newTask.
KillCapacity == 1

\* The dispatcher is inside SendTask: m.newTask is full and its send waits
\* (newTask counts the buffered task and the waiting sender).
SendTaskBlocked == newTask > KillCapacity

\* The dispatcher hands a task to the worker (case t := <-d.executeQueue):
\* runWorker starts a goroutine that calls w.Run(), SendTask sends the task
\* to m.newTask. The dispatcher does so for a worker that is not running:
\* a new one or one that has reported on done.
WorkmanStart ==
    /\ mRunPc = "off"
    /\ ~SendTaskBlocked
    /\ newTask' = newTask + 1
    /\ mRunPc' = "launched"
    /\ UNCHANGED <<outerVars, mStatus, mTask, kill, killTask, mProcPc, mFnPc,
                   killers>>

\* Run up to its loop: the status check (an error when the worker is not
\* in Wait) and the status Process.
WorkmanRun ==
    /\ mRunPc = "launched"
    /\ IF mStatus # "Wait"
       THEN mRunPc' = "off" /\ UNCHANGED mStatus
       ELSE mRunPc' = "select" /\ mStatus' = "Process"
    /\ UNCHANGED <<outerVars, mTask, newTask, kill, killTask, mProcPc, mFnPc,
                   killers>>

\* case t := <-m.newTask: the status Busy, the task, wg.Add(1) and the
\* processTask goroutine; processTask up to the select of executeTask,
\* where the goroutine calling the task function has been started.
RunNewTask ==
    /\ mRunPc = "select"
    /\ newTask > 0
    /\ mProcPc = "off"
    /\ newTask' = newTask - 1
    /\ mStatus' = "Busy"
    /\ mTask' = TRUE
    /\ mProcPc' = "select"
    /\ mFnPc' = "running"
    /\ UNCHANGED <<outerVars, kill, killTask, mRunPc, killers>>

\* The task function returns (or panics): its result is in resultChan or
\* errorChan and the deferred wg.Done has run.
FnReturn ==
    /\ mFnPc = "running"
    /\ mFnPc' = "returned"
    /\ UNCHANGED <<outerVars, mStatus, mTask, newTask, kill, killTask, mRunPc,
                   mProcPc, killers>>

\* executeTask: case r := <-resultChan, case err := <-errorChan.
ExecuteResult ==
    /\ mProcPc = "select"
    /\ mFnPc = "returned"
    /\ mProcPc' = "setWait"
    /\ UNCHANGED <<outerVars, mStatus, mTask, newTask, kill, killTask, mRunPc,
                   mFnPc, killers>>

\* executeTask: case <-m.killTask; quitChan <- true and the status Kill.
ExecuteKilled ==
    /\ mProcPc = "select"
    /\ killTask > 0
    /\ killTask' = killTask - 1
    /\ mProcPc' = "setWait"
    /\ UNCHANGED <<outerVars, mStatus, mTask, newTask, kill, mRunPc, mFnPc,
                   killers>>

\* executeTask: case <-timer.C(); quitChan <- true and FailByTimeout.
ExecuteTimeout ==
    /\ mProcPc = "select"
    /\ mProcPc' = "setWait"
    /\ UNCHANGED <<outerVars, mStatus, mTask, newTask, kill, killTask, mRunPc,
                   mFnPc, killers>>

\* processTask after executeTask: m.setStatus(WorkerStatusWait).
ProcessSetWait ==
    /\ mProcPc = "setWait"
    /\ mStatus' = "Wait"
    /\ mProcPc' = "kill"
    /\ UNCHANGED <<outerVars, mTask, newTask, kill, killTask, mRunPc, mFnPc,
                   killers>>

\* processTask: m.kill <- true, which ends Run after the task, and the
\* deferred wg.Done.
ProcessKill ==
    /\ mProcPc = "kill"
    /\ kill < KillCapacity
    /\ kill' = kill + 1
    /\ mProcPc' = "off"
    /\ UNCHANGED <<outerVars, mStatus, mTask, newTask, killTask, mRunPc, mFnPc,
                   killers>>

\* case <-m.kill: with the status Busy Run goes to the send to killTask,
\* otherwise to wg.Wait.
RunKill ==
    /\ mRunPc = "select"
    /\ kill > 0
    /\ kill' = kill - 1
    /\ mRunPc' = IF mStatus = "Busy" THEN "killTask" ELSE "wgWait"
    /\ UNCHANGED <<outerVars, mStatus, mTask, newTask, killTask, mProcPc, mFnPc,
                   killers>>

\* m.killTask <- true
RunKillTask ==
    /\ mRunPc = "killTask"
    /\ killTask < KillCapacity
    /\ killTask' = killTask + 1
    /\ mRunPc' = "wgWait"
    /\ UNCHANGED <<outerVars, mStatus, mTask, newTask, kill, mProcPc, mFnPc,
                   killers>>

\* m.wg.Wait() returns when processTask and the function goroutine have
\* ended; Run returns: the deferred setStatus(Wait), then m.done <- m.
RunWaited ==
    /\ mRunPc = "wgWait"
    /\ mProcPc = "off"
    /\ mFnPc # "running"
    /\ mStatus' = "Wait"
    /\ mRunPc' = "done"
    /\ UNCHANGED <<outerVars, mTask, newTask, kill, killTask, mProcPc, mFnPc,
                   killers>>

\* The dispatcher receives the worker from done (case w := <-d.doneWorker):
\* it reads w.GetTask(), uses the task (t.GetId(), a nil dereference that
\* ends the dispatcher when the worker has no task) and calls w.Reset().
DoneReceive ==
    /\ mRunPc = "done"
    /\ ~SendTaskBlocked
    /\ mRunPc' = IF mTask THEN "off" ELSE "panic"
    /\ mTask' = FALSE
    /\ UNCHANGED <<outerVars, mStatus, newTask, kill, killTask, mProcPc, mFnPc,
                   killers>>

\* Kill: the status check, passed (the worker is not in Wait).
KillCheck ==
    /\ mStatus # "Wait"
    /\ killers < MaxKillers
    /\ killers' = killers + 1
    /\ UNCHANGED <<outerVars, mStatus, mTask, newTask, kill, killTask, mRunPc,
                   mProcPc, mFnPc>>

\* Kill: m.kill <- true
KillSend ==
    /\ killers > 0
    /\ kill < KillCapacity
    /\ kill' = kill + 1
    /\ killers' = killers - 1
    /\ UNCHANGED <<outerVars, mStatus, mTask, newTask, killTask, mRunPc, mProcPc,
                   mFnPc>>

\* The goroutines of the Workman.
WorkmanNext ==
    \/ WorkmanRun \/ RunNewTask \/ RunKill \/ RunKillTask \/ RunWaited
    \/ FnReturn \/ ExecuteResult \/ ExecuteKilled \/ ExecuteTimeout
    \/ ProcessSetWait \/ ProcessKill

\* The dispatcher that owns the worker and the callers of Kill.
WorkmanEnvironmentNext ==
    \/ WorkmanStart \/ DoneReceive \/ KillCheck \/ KillSend

\* A Workman as constructed; the dispatchers stay as constructed.
WorkmanInit ==
    /\ SimpleConstructed
    /\ repeats = [t \in Tasks |-> IF t = "t1" THEN 0 ELSE -1]
    /\ LegacyConstructed
    /\ taskRepeats = [t \in LegacyTasks |-> 1]
    /\ WorkmanConstructed

WorkmanSpec == WorkmanInit /\ [][WorkmanNext \/ WorkmanEnvironmentNext]_vars

\* ------------------------------------------- the start of an execution

\* doRunTask up to setStatusTask(taskItem, Process): the worker gets the
\* task and the status Process, the task one more attempt and the status
\* Process.
RunTaskCount(w) ==
    /\ runTask[w].pc = "begin"
    /\ wTask' = [wTask EXCEPT ![w] = runTask[w].task]
    /\ wStatus' = [wStatus EXCEPT ![w] = "Process"]
    /\ attempts' = [attempts EXCEPT ![runTask[w].task] = @ + 1]
    /\ tStatus' = [tStatus EXCEPT ![runTask[w].task] = "Process"]
    /\ runTask' = [runTask EXCEPT ![w].pc = "stamp"]
    /\ UNCHANGED <<dispatcherVars, envVars, workersReg, workersQueue,
                   workersCreated, wCancel, tasksReg, tasksQueue, firstStartedAt,
                   tCancel, tAllowed, notifyVars, dispPc, colPc, result, orphan,
                   eventVars>>

\* doRunTask from `now := time.Now()` to the select: first_started_at is
\* stamped when the attempts are 1, the task context is derived, both items
\* get its cancel handle and the function carrier is started.
RunTaskStamp(w) ==
    /\ runTask[w].pc = "stamp"
    /\ firstStartedAt' = [firstStartedAt EXCEPT ![runTask[w].task] =
                             @ \/ FirstAttempt(attempts[runTask[w].task])]
    /\ runTask' = [runTask EXCEPT ![w] =
                      [@ EXCEPT !.pc = "select",
                                !.ctxErr = IF ctxDone THEN "Canceled" ELSE "nil",
                                !.timer = HasTimeout(runTask[w].task) /\ ~ctxDone]]
    /\ tCancel' = [tCancel EXCEPT ![runTask[w].task] = TRUE]
    /\ wCancel' = [wCancel EXCEPT ![w] = TRUE]
    /\ UNCHANGED <<dispatcherVars, envVars, workersReg, workersQueue,
                   workersCreated, wStatus, wTask, tasksReg, tasksQueue, tStatus,
                   attempts, tAllowed, notifyVars, dispPc, colPc, result, orphan,
                   eventVars>>

\* The carriers with the start of an execution taken statement by
\* statement: the item's fields are written one after the other, and what
\* reads the item in between (Metadata() for the status event, a caller of
\* GetTaskMetadata) sees the fields written so far.
StartNext ==
    \/ RunNotify \/ RunNotifySend
    \/ DispatchStart \/ DispatchNotified \/ DispatchTick
    \/ CollectorStart \/ CollectorResult \/ CollectorRepeat
    \/ CollectorNotifySend
    \/ \E w \in Workers :
          \/ RunTaskAdd(w) \/ RunTaskCount(w) \/ RunTaskStamp(w)
          \/ \E e \in Envelopes(w) : Handoff(w, e)

StartSpec == Init /\ [][StartNext \/ WorkEnvironmentNext]_vars

\* ------------------------------------------------------------------ claims

Max(a, b) == IF a >= b THEN a ELSE b

\* C1 as stated: a task with Repeats() = N >= 0 is attempted at most N times,
\* N = 0 included.
C1_AtMostRepeats ==
    \A t \in Tasks : repeats[t] >= 0 => attempts[t] <= repeats[t]

\* C1 amended: a task with Repeats() = N >= 1 is attempted at most N times;
\* a task with Repeats() = 0 is attempted at most once.
C1_AttemptsBound ==
    \A t \in Tasks : repeats[t] >= 0 => attempts[t] <= Max(repeats[t], 1)

\* A task with N >= 1 has used its N attempts, the last one failed, and the
\* collector has removed it instead of queueing it again.
C1_Witness ==
    \E t \in Tasks :
        /\ repeats[t] >= 1
        /\ attempts[t] = repeats[t]
        /\ tStatus[t] = "Fail"
        /\ t \notin tasksReg
        /\ colPc = "select"

\* C2: every task in Process is the current task of exactly one worker.
C2_NoDoubleAssign ==
    \A t \in Tasks :
        tStatus[t] = "Process" => Cardinality({w \in Workers : wTask[w] = t}) = 1

\* A caller of notifyAllowExecuteTasks waits in the channel send.
NotifyBlocked ==
    /\ ~NotifySendReady
    /\ senders > 0 \/ colPc = "notify" \/ runPc = "notifySend"

\* Run has been called, is past its notifyAllowExecuteTasks and has not
\* returned.
RunActive == runPc \in {"waitCtx", "cancelItems", "wgWait"}

\* C3: after the root context is cancelled while Run is active, Run returns.
\* Stated as what a returning Run needs in every state on its way: as long as
\* Run has not returned, Run or one of its carriers has a step to take (the
\* callers of the public operations cannot make Run return).  States where a
\* notifyAllowExecuteTasks waits in its send are left to C10.
C3_ShutdownProgresses ==
    (ctxDone /\ RunActive /\ ~NotifyBlocked) => ENABLED DispatcherNext

\* No execution is under way: no carrier is alive and the collector holds no
\* envelope.
Quiescent ==
    /\ \A w \in Workers : runTask[w].pc = "none"
    /\ colPc \notin {"result", "repeat"}

\* C4: at quiescence every TaskExecuteStart has had its TaskExecuteStop.
C4_EventPairing ==
    Quiescent => nStart = nStop

\* RemoveTask(t) has returned: t is in Cancel and out of the manager.
Removed(t) == tStatus[t] = "Cancel" /\ t \notin tasksReg

\* C5: a task RemoveTask has removed stays in Cancel, is never pushed back
\* and is never started again.
C5_RemovedTaskStaysCancelled ==
    [][\A t \in Tasks : Removed(t) => Removed(t)' /\ attempts'[t] = attempts[t]]_vars

\* RemoveWorker(w) has returned: w is in Cancel and out of the manager.
RemovedWorker(w) == wStatus[w] = "Cancel" /\ w \notin workersReg

\* C6: a worker RemoveWorker has removed is not set back to Wait and not
\* pushed back to the pool when the envelope of its task is processed.
C6_RemovedWorkerStaysOut ==
    [][\A w \in Workers :
          (RemovedWorker(w) /\ colPc = "result" /\ result.w = w /\ colPc' # "result")
              => (wStatus'[w] # "Wait" /\ w \notin workersQueue')]_vars

\* The collector records the outcome of a timed-out attempt.
TimeoutRecorded ==
    /\ colPc = "result"
    /\ colPc' # "result"
    /\ result.err = "DeadlineExceeded"
    /\ tStatus[result.t] # "Cancel"

\* The collector decides about the repetition of a timed-out attempt.
TimeoutRepeatDecided ==
    /\ colPc = "repeat"
    /\ colPc' # "repeat"
    /\ result.err = "DeadlineExceeded"

C8_SequentialOnWorker ==
    \A w \in Workers : ~(runTask[w].pc = "select" /\ orphan.w = w)

\* The function of t is running on a worker.
Executing(t) ==
    \/ \E w \in Workers : runTask[w].pc = "select" /\ runTask[w].task = t
    \/ orphan.t = t

\* C9: no task is pending in the queue while it is executing on a worker.
C9_NotQueuedWhileExecuting ==
    \A t \in Tasks : t \in SeqToSet(tasksQueue) => ~Executing(t)

\* C10: no call of notifyAllowExecuteTasks is left waiting in the channel
\* send once the dispatch carrier has exited (such a call never returns).
C10_NotifyReturns ==
    ~(dispPc = "exited" /\ NotifyBlocked)

\* Every registered worker has status Wait, has no current task and is in
\* the idle pool.
NoWorkerBusy ==
    \A w \in workersReg :
        wStatus[w] = "Wait" /\ wTask[w] = NoTask /\ w \in workersQueue

\* C11: while the dispatcher stays in Process, once the tasks have reached
\* their outcomes and no new one arrives (the executions started are finitely
\* many), every registered worker is back in Wait, without a task, in the
\* idle pool, and stays so.
C11_NoStuckWorker == <>[]NoWorkerBusy

\* Both workers are registered, executions have been started and have all
\* been processed, and no worker is busy.
C11_Witness ==
    /\ status = "Process"
    /\ workersReg = Workers
    /\ nStart = MaxStarts
    /\ nStop = nStart
    /\ NoWorkerBusy

\* The collector finishes the step it is at.
CollectorLeaves(pc) == colPc = pc /\ colPc' # pc

\* C12: result processing never removes a task with Repeats() < 0: after a
\* completion that is not a cancellation (the envelope is none and the task
\* was not cancelled) the outcome is recorded, then the task is set to
\* RepeatWait and pushed back to the queue.
C12_NegativeRepeatsRequeued ==
    [][\A t \in Tasks :
          (repeats[t] < 0 /\ result.t = t) =>
              /\ (CollectorLeaves("result") /\ ~result.cancel /\ tStatus[t] # "Cancel")
                    => colPc' = "repeat"
              /\ CollectorLeaves("repeat")
                    => /\ tStatus'[t] = "RepeatWait"
                       /\ t \in SeqToSet(tasksQueue')
                       /\ t \in tasksReg'
              /\ (CollectorLeaves("result") /\ t \in tasksReg) => t \in tasksReg']_vars

\* A task with Repeats() < 0 is back in the queue in RepeatWait after its
\* second attempt.
C12_Witness ==
    \E t \in Tasks :
        /\ repeats[t] < 0
        /\ attempts[t] >= 2
        /\ tStatus[t] = "RepeatWait"
        /\ t \in SeqToSet(tasksQueue)

\* C13: Run called while the dispatcher is not in Wait returns an error,
\* starts no dispatch or result-collector carrier and leaves the dispatcher
\* status (and everything else) unchanged.
C13_RunRejected ==
    [][run2Pc' # run2Pc =>
          /\ run2Pc' = "error"
          /\ UNCHANGED <<status, dispPc, colPc, wg, ctxDone, runPc, workerVars,
                         taskVars, notifyVars, result, runTask, orphan, eventVars>>]_vars

\* Run has been refused while the first Run was shutting down.
C13_Witness ==
    run2Pc = "error" /\ runPc = "cancelItems" /\ status = "Cancel"

\* C14: for an envelope that is not a cancellation (its cancel flag is unset
\* and its task was not cancelled) the task becomes Fail when the envelope
\* carries an error (function error, recovered panic) and Success otherwise,
\* the worker goes back to Wait in the pool, and the collector and the
\* dispatch carrier go on with their cycles.
C14_OutcomeRecorded ==
    [][/\ (CollectorLeaves("result") /\ ~result.cancel /\ tStatus[result.t] # "Cancel")
            => /\ tStatus'[result.t] = IF result.err = "nil" THEN "Success" ELSE "Fail"
               /\ wStatus'[result.w] = "Wait"
               /\ wTask'[result.w] = NoTask
               /\ result.w \in workersQueue'
               /\ colPc' = "repeat"
               /\ dispPc' = dispPc
       /\ CollectorLeaves("repeat")
            => /\ colPc' \in {"select", "notify"}
               /\ dispPc' = dispPc
               /\ nStop' = nStop + 1]_vars

\* The envelope of a recovered panic has been recorded: the task is in Fail,
\* the worker is back in the pool and the dispatch carrier is in its loop.
C14_Witness ==
    /\ colPc = "repeat"
    /\ result.err = "Panic recovered"
    /\ tStatus[result.t] = "Fail"
    /\ wStatus[result.w] = "Wait"
    /\ result.w \in workersQueue
    /\ dispPc = "select"

\* C15: a finished task that is to be repeated with a zero duration is
\* submitted again and executed again, and the Run loop goes on. Stated as
\* what that needs in every state in which Run is submitting such a task
\* (it is in the send to newQueue): Run, the goroutine between the queues
\* or a worker has a step to take.
C15_ResubmitProgresses ==
    mainPc = "doneSend" => ENABLED LegacyDispatcherNext

\* A carrier started by the dispatcher is launched or running.
CarrierAlive ==
    \/ dispPc \in {"launched", "select"}
    \/ colPc \in {"launched", "select", "result", "repeat", "notify"}
    \/ \E w \in Workers : runTask[w].pc # "none"

\* C16: when Run has returned, no dispatch, result-collector or task carrier
\* of the dispatcher is still running.
C16_NoCarrierAfterReturn ==
    runPc = "returned" => ~CarrierAlive

\* C17: once Run has marked the workers and tasks Cancel (it is at wg.Wait or
\* has returned), no carrier overwrites the Cancel of a registered worker or
\* task with another status.
C17_CancelKept ==
    [][(runPc \in {"wgWait", "returned"}) =>
          ( /\ \A w \in workersReg :
                  wStatus[w] = "Cancel" => wStatus'[w] = "Cancel"
            /\ \A t \in tasksReg :
                  tStatus[t] = "Cancel" => tStatus'[t] = "Cancel" )]_vars

\* The collector receives the envelope of the carrier of w.
EnvelopeReceived(w) == runTask[w].pc = "select" /\ runTask'[w].pc = "none"

\* C18: an envelope the collector receives while the dispatcher is in Cancel
\* only clears the cancel handles of its task and its worker: the statuses
\* and current tasks of the workers, the pool, the statuses of the tasks and
\* the queue stay as they are, no event is triggered and the collector is
\* back at its select.
C18_DroppedEnvelopeFrame ==
    [][\A w \in Workers :
          (status = "Cancel" /\ EnvelopeReceived(w)) =>
              /\ ~wCancel'[w] /\ ~tCancel'[runTask[w].task]
              /\ \A v \in Workers \ {w} : wCancel'[v] = wCancel[v]
              /\ \A t \in Tasks \ {runTask[w].task} : tCancel'[t] = tCancel[t]
              /\ UNCHANGED <<wStatus, wTask, workersQueue, workersReg, tStatus,
                             tasksQueue, tasksReg, attempts, firstStartedAt, eventVars, notifyVars>>
              /\ colPc' = "select" /\ result' = result]_vars

\* An envelope was dropped: in Cancel every carrier has returned and the
\* collector waits, with a start whose stop was never triggered and the
\* worker of that start still in Process.
C18_Witness ==
    /\ status = "Cancel"
    /\ colPc = "select"
    /\ \A w \in Workers : runTask[w].pc = "none"
    /\ nStart > nStop
    /\ \E w \in Workers : wStatus[w] = "Process" /\ ~wCancel[w]

\* An idle worker can be pulled from the pool and an eligible task from the
\* queue while the dispatcher is in Process (and the bound on the executions
\* leaves room for one more).
DispatchPending ==
    /\ status = "Process"
    /\ WorkersPullable # <<>>
    /\ TasksPullable # <<>>
    /\ nStart < MaxStarts

\* C19: while the dispatcher is in Process, whenever an idle worker is in the
\* pool and an eligible task is in the queue, an execution is eventually
\* started, unless the pair is taken away meanwhile (RemoveWorker or
\* RemoveTask; nothing else ends the waiting without a start); no notify
\* signal is needed for it, the tick runs the dispatch cycle.
C19_DispatchLive ==
    \A k \in 0..(MaxStarts - 1) :
        (DispatchPending /\ nStart = k)
            ~> (nStart > k \/ (~DispatchPending /\ removals > 0))

\* A pair is waiting and no notify signal is buffered or on its way: the
\* task became eligible by the passing of its repeat interval.
C19_Witness ==
    /\ DispatchPending
    /\ dispPc = "select"
    /\ allowExecuteTasks = 0
    /\ senders = 0
    /\ colPc = "select"
    /\ runPc = "waitCtx"
    /\ nStart > 0

\* A step of the dispatch carrier that runs doExecuteTasks and is no
\* stuttering step: it takes the notify signal or it launches.
DispatchCycle == allowExecuteTasks' < allowExecuteTasks \/ nStart' # nStart

RunRunning == runPc \in {"notify", "notifySend", "waitCtx", "cancelItems", "wgWait"}

\* C21: of two callers of Run on a dispatcher in Wait at most one passes the
\* status check and starts the carriers: while the Run of the first caller
\* is running, the second caller has not started carriers of its own.
C21_SingleMatchingLoop ==
    ~(RunRunning /\ run2Pc = "notify")

\* The carrier of a task is between the count of the attempt and the stamp
\* of first_started_at.
Stamping(t) == \E w \in Workers : runTask[w].pc = "stamp" /\ runTask[w].task = t

\* A step of doRunTask that counts an attempt of t.
Dispatched(t) ==
    \E w \in Workers :
        runTask[w].pc = "begin" /\ runTask[w].task = t /\ runTask'[w].pc = "stamp"

\* C22 as stated: in every state the attempts of a task item are 0 exactly
\* when its first_started_at is unset.
C22_AttemptsIffStamped ==
    \A t \in Tasks : attempts[t] = 0 <=> ~firstStartedAt[t]

\* C22, amended: a task item with attempts 0 has first_started_at unset, and
\* one with first_started_at unset has attempts 0 or is in its first start,
\* between the count of the attempt and the stamp (attempts 1); the attempts
\* change only by one and exactly in the dispatch steps; first_started_at
\* is set once, in the first start, and stays set.
C22_AttemptsAndFirstStart ==
    /\ [](\A t \in Tasks :
            /\ attempts[t] = 0 => ~firstStartedAt[t]
            /\ (~firstStartedAt[t] /\ attempts[t] # 0)
                  => (attempts[t] = 1 /\ Stamping(t)))
    /\ [][\A t \in Tasks :
            /\ Dispatched(t) => attempts'[t] = attempts[t] + 1
            /\ ~Dispatched(t) => attempts'[t] = attempts[t]
            /\ firstStartedAt[t] => firstStartedAt'[t]
            /\ (~firstStartedAt[t] /\ firstStartedAt'[t])
                  => (attempts[t] = 1 /\ Stamping(t))]_vars

\* A task is in its second start: the attempt is counted (attempts 2), the
\* stamp step is still to come and first_started_at is set from the first.
C22_Witness ==
    \E t \in Tasks : Stamping(t) /\ attempts[t] = 2 /\ firstStartedAt[t]

\* C23: the tasks added before Run are handed on when Run is called with a
\* worker, however many they are. Stated as what that needs in every state
\* in which Run, with a worker in the pool, is sending a waiting task to
\* newQueue in its loop over waitTasks: Run, the goroutine between the
\* queues or a worker has a step to take.
C23_DrainProgresses ==
    (mainPc = "drainSend" /\ pool # {}) => ENABLED WaitingNext

\* Run takes a task from executeQueue.
TaskTaken == mainPc = "select" /\ flowPc = "sendExec" /\ flowPc' = "waitAllow"

\* C24: Run takes a task from executeQueue only when a worker exists and is
\* free to be popped for it, also when the task is the first one and no
\* worker has been added.
C24_TakenWithFreeWorker ==
    [][TaskTaken => FreeWorkers # {}]_vars

\* Run of the Workman returns: wg.Wait is over and the worker is about to
\* report on done.
WorkmanReturns == mRunPc = "wgWait" /\ mRunPc' = "done"

\* C25: every Run of a Workman that has executed a task and returns leaves
\* m.kill and m.killTask empty, also after Kill of the Busy worker or a Kill
\* that races with the end of the task.
C25_ChannelsEmptyAtReturn ==
    [][(WorkmanReturns /\ mTask) => (kill' = 0 /\ killTask' = 0)]_vars

====
